---- MODULE Spec2Model ----
(***************************************************************************)
(* Presigned-URL lambdas of s3-security-fortress:                          *)
(*   terraform/modules/presigned-access/lambda/upload.py                   *)
(*   terraform/modules/presigned-access/lambda/download.py                 *)
(*                                                                         *)
(* A Python string is modelled as a sequence of tokens (each token a       *)
(* fragment of the text), so that concatenation (f-strings), str() and     *)
(* the substring test `needle in text` are computed, not assumed.  The     *)
(* text 'x-amz-server-side-encryption' is always one token, so a           *)
(* substring search for it is a search for that token.                     *)
(* A Python dict is a function from its keys to its values.                *)
(***************************************************************************)
EXTENDS Integers, Sequences, FiniteSets, TLC

(* ------------------------------ bounds -------------------------------- *)
\* the clock runs from 0 to MaxClock ticks
MaxClock == 3
\* clock ticks per second: strftime('%H%M%S') drops the sub-second part
TicksPerSec == 2

(* --------------------------- Python values ---------------------------- *)
\* Python's None, kept apart from every string of the model
None == <<"<None>">>
\* the empty dict {} (and the empty string '')
EmptyDict == << >>

\* `needle in text` on strings
Contains(text, needle) ==
    \E i \in 1..(Len(text) - Len(needle) + 1) :
        SubSeq(text, i, i + Len(needle) - 1) = needle

\* str(value) / f-string interpolation of a value
PyStr(value) == IF value = None THEN <<"None">> ELSE value

\* truth value of a str-or-None (`if not x`, `if x`)
\* (variant: only None is false)
TruthyEmptyPasses(x) == x # None
Truthy(x) == x # None /\ x # << >>

\* dict.get(key, default)
Get(body, key, default) == IF key \in DOMAIN body THEN body[key] ELSE default

\* the elements of a list
Range(list) == {list[i] : i \in DOMAIN list}

(* --------------------------- configuration ---------------------------- *)
BUCKET_NAME == <<"fortress-bucket">>
EXPIRATION_TIME == 300
MAX_FILE_SIZE_MB == 10
MAX_FILE_SIZE == MAX_FILE_SIZE_MB * 1024 * 1024

CT_DEFAULT == <<"application/octet-stream">>
CT_PDF     == <<"application/pdf">>
CT_EXE     == <<"application/x-msdownload">>
\* a caller-chosen content type whose text contains the encryption field name
CT_SSE     == <<"application/", "x-amz-server-side-encryption">>

\* values of the ALLOWED_CONTENT_TYPES and KMS_KEY_ID environment variables
AllowListConfigs == {<< >>, <<CT_PDF>>}
KmsKeyConfigs == {<< >>, <<"alias/fortress-key">>}

(* ----------------------------- field names ---------------------------- *)
F_CONTENT_TYPE == <<"Content-Type">>
META_PREFIX    == <<"x-amz-meta-">>
F_UPLOADED_AT  == <<"x-amz-meta-", "uploaded-at">>
F_SSE          == <<"x-amz-server-side-encryption">>
F_SSE_KEY      == <<"x-amz-server-side-encryption", "-aws-kms-key-id">>
SSE_ALGORITHM  == <<"aws:kms">>
LENGTH_RANGE   == <<"content-length-range">>

(* ------------------------------ requests ------------------------------ *)
Filenames == {<< >>, <<"doc.pdf">>}
ContentTypes == {CT_PDF, CT_EXE, CT_SSE}
MetaKeys == {<<"user_id">>, <<"uploaded-at">>}
MetaValues == {<<"123">>}
Metadatas == UNION {[S -> MetaValues] : S \in SUBSET MetaKeys}

\* upload request bodies: every subset of the three keys may be present
UploadRequests ==
    UNION { { [k \in S |-> CASE k = "filename" -> fn
                             [] k = "content_type" -> ct
                             [] OTHER -> md] :
                fn \in Filenames, ct \in ContentTypes, md \in Metadatas }
            : S \in SUBSET {"filename", "content_type", "metadata"} }

ObjectKeys == {<< >>, <<"uploads/2024/02/13/120000/doc.pdf">>}
Dispositions == {<< >>, <<"attachment; filename=out.pdf">>}

DownloadRequests ==
    UNION { { [k \in S |-> IF k = "object_key" THEN ok ELSE rcd] :
                ok \in ObjectKeys, rcd \in Dispositions }
            : S \in SUBSET {"object_key", "response_content_disposition"} }

\* the event shapes: the request itself ("raw"), the request under 'body'
\* as a JSON string ("str") or as a decoded object ("obj"), and a 'body'
\* string that is not JSON ("badstr")
Events(requests) ==
    {[shape |-> s, req |-> r] : s \in {"raw", "str", "obj"}, r \in requests}
    \cup {[shape |-> "badstr", req |-> EmptyDict]}

\* json.loads(event['body']) raises on a string that is not JSON
ParseFails(ev) == ev.shape = "badstr"
\* the body the handler works on
ParseBody(ev) == ev.req

(* ------------------------------ responses ----------------------------- *)
NoResponse == [statusCode |-> 0]

json_dumps(data) == [json |-> data]

success_response(data) ==
    [statusCode |-> 200,
     headers |-> ("Content-Type" :> "application/json")
              @@ ("Access-Control-Allow-Origin" :> "*")
              @@ ("Access-Control-Allow-Headers" :> "Content-Type")
              @@ ("Access-Control-Allow-Methods" :> "POST"),
     body |-> json_dumps(data)]

\* (variant: an error envelope without the allow-origin header)
error_response_no_origin(status_code, message) ==
    [statusCode |-> status_code,
     headers |-> ("Content-Type" :> "application/json"),
     body |-> json_dumps([error |-> message])]
error_response(status_code, message) ==
    [statusCode |-> status_code,
     headers |-> ("Content-Type" :> "application/json")
              @@ ("Access-Control-Allow-Origin" :> "*"),
     body |-> json_dumps([error |-> message])]

\* the two except clauses at the end of each handler
ClientErrorResponse ==
    error_response(500, <<"Error generating presigned URL: ", "ClientError">>)
UnexpectedErrorResponse ==
    error_response(500, <<"Unexpected error: ", "Exception">>)

(* -------------------------------- clock ------------------------------- *)
\* datetime.strftime('%Y/%m/%d/%H%M%S'): second granularity
strftime(t) == <<ToString(t \div TicksPerSec)>>
\* datetime.isoformat(): keeps the sub-second part
isoformat(t) == <<ToString(t \div TicksPerSec), ".", ToString(t % TicksPerSec)>>

(* ------------------------------- state -------------------------------- *)
VARIABLES
    ALLOWED_CONTENT_TYPES, KMS_KEY_ID,  \* configuration, read once at start
    clock,                              \* datetime.utcnow()
    handler, pc,                        \* running handler and its position
    event,                              \* the event of the invocation
    filename, content_type, metadata,   \* upload.py locals
    timestamp, object_key, fields, conditions,
    response_content_disposition, params, \* download.py locals
    calls,                              \* collaborator calls of the invocation
    response                            \* the value the handler returned

config == <<ALLOWED_CONTENT_TYPES, KMS_KEY_ID>>
uploadLocals == <<filename, content_type, metadata, timestamp, fields, conditions>>
downloadLocals == <<response_content_disposition, params>>
vars == <<ALLOWED_CONTENT_TYPES, KMS_KEY_ID, clock, handler, pc, event,
          filename, content_type, metadata, timestamp, object_key, fields,
          conditions, response_content_disposition, params, calls, response>>

NoEvent == [shape |-> "none", req |-> EmptyDict]

Idle ==
    /\ handler = "idle"
    /\ pc = "idle"
    /\ event = NoEvent
    /\ filename = None
    /\ content_type = None
    /\ metadata = EmptyDict
    /\ timestamp = None
    /\ object_key = None
    /\ fields = EmptyDict
    /\ conditions = << >>
    /\ response_content_disposition = None
    /\ params = EmptyDict
    /\ calls = << >>
    /\ response = NoResponse

Init ==
    /\ ALLOWED_CONTENT_TYPES \in AllowListConfigs
    /\ KMS_KEY_ID \in KmsKeyConfigs
    /\ clock = 0
    /\ Idle

\* time passes
Tick ==
    /\ clock < MaxClock
    /\ clock' = clock + 1
    /\ UNCHANGED <<config, handler, pc, event, uploadLocals, object_key,
                   downloadLocals, calls, response>>

(* ============================== upload.py ============================== *)
\* `ALLOWED_CONTENT_TYPES and content_type not in ALLOWED_CONTENT_TYPES`
\* (variant: the test without its `ALLOWED_CONTENT_TYPES and`)
ContentTypeRejectedEmptyRestricts(ct) ==
    ct \notin Range(ALLOWED_CONTENT_TYPES)
ContentTypeRejected(ct) ==
    /\ ALLOWED_CONTENT_TYPES # << >>
    /\ ct \notin Range(ALLOWED_CONTENT_TYPES)

\* f"uploads/{timestamp}/{filename}"
ObjectKey(ts, fn) == <<"uploads/">> \o ts \o <<"/">> \o PyStr(fn)

\* the fields dict after the metadata loop: a metadata key assigned in the
\* loop overwrites an entry of the same name written before it
Fields(ct, md, now) ==
    [f \in {F_CONTENT_TYPE, F_UPLOADED_AT} \cup {META_PREFIX \o k : k \in DOMAIN md} |->
        IF \E k \in DOMAIN md : META_PREFIX \o k = f
        THEN PyStr(md[CHOOSE k \in DOMAIN md : META_PREFIX \o k = f])
        ELSE IF f = F_CONTENT_TYPE THEN ct ELSE isoformat(now)]

\* a policy condition: the dict {field: value} or the list [name, lo, hi]
EqCond(f, v) == [kind |-> "eq", field |-> f, value |-> v]
RangeCond(name, lo, hi) == [kind |-> "range", field |-> name, lo |-> lo, hi |-> hi]

\* str(c) of a condition
Repr(c) ==
    IF c.kind = "eq"
    THEN <<"{'">> \o c.field \o <<"': '">> \o c.value \o <<"'}">>
    ELSE <<"['">> \o c.field \o <<"', ", ToString(c.lo), ", ", ToString(c.hi), "]">>

\* the conditions list as first built
InitialConditions(ct, flds) ==
    << EqCond(F_CONTENT_TYPE, ct),
       RangeCond(LENGTH_RANGE, 1, MAX_FILE_SIZE),
       EqCond(F_UPLOADED_AT, flds[F_UPLOADED_AT]) >>

\* [c for c in conditions if 'x-amz-server-side-encryption' not in str(c)]
RemoveEncryptionConditions(conds) ==
    SelectSeq(conds, LAMBDA c : ~Contains(Repr(c), F_SSE))

\* the `if KMS_KEY_ID:` block, on the fields and on the conditions
EncryptedFields(flds) ==
    IF KMS_KEY_ID # << >>
    THEN (F_SSE :> SSE_ALGORITHM) @@ (F_SSE_KEY :> KMS_KEY_ID) @@ flds
    ELSE flds
EncryptedConditions(conds) ==
    IF KMS_KEY_ID # << >>
    THEN RemoveEncryptionConditions(conds)
         \o << EqCond(F_SSE, SSE_ALGORITHM), EqCond(F_SSE_KEY, KMS_KEY_ID) >>
    ELSE conds

\* what generate_presigned_post returns: the endpoint and the form fields
\* (the given fields plus the key and the signed policy)
PresignedPostUrl(bucket) == <<"https://">> \o bucket \o <<".s3.amazonaws.com/">>
PresignedPostFields(flds, key) ==
    (<<"key">> :> key) @@ (<<"policy">> :> <<"signed-policy">>) @@ flds

\* the value returned after generate_presigned_post (outcome "ok") or from
\* the except clause its exception reaches
\* (variant: a ClientError sends the handler back to the call)
UploadPresignResultRetry(outcome, data) ==
    CASE outcome = "ok" -> [pc |-> "done", response |-> success_response(data)]
      [] outcome = "ClientError" -> [pc |-> "presign", response |-> NoResponse]
      [] OTHER -> [pc |-> "done", response |-> UnexpectedErrorResponse]
UploadPresignResult(outcome, data) ==
    CASE outcome = "ok" -> [pc |-> "done", response |-> success_response(data)]
      [] outcome = "ClientError" -> [pc |-> "done", response |-> ClientErrorResponse]
      [] OTHER -> [pc |-> "done", response |-> UnexpectedErrorResponse]

\* upload.lambda_handler, from its entry to the end of validation
UploadInvoke ==
    /\ handler = "idle"
    /\ \E ev \in Events(UploadRequests) :
        /\ handler' = "upload"
        /\ event' = ev
        /\ IF ParseFails(ev)
           THEN /\ response' = UnexpectedErrorResponse
                /\ pc' = "done"
                /\ UNCHANGED <<filename, content_type, metadata>>
           ELSE LET body == ParseBody(ev)
                    fn == Get(body, "filename", None)
                    ct == Get(body, "content_type", CT_DEFAULT)
                    md == Get(body, "metadata", EmptyDict)
                IN  /\ filename' = fn
                    /\ content_type' = ct
                    /\ metadata' = md
                    /\ IF ~Truthy(fn)
                       THEN /\ response' = error_response(400, <<"filename is required">>)
                            /\ pc' = "done"
                       ELSE IF ContentTypeRejected(ct)
                       THEN /\ response' = error_response(400,
                                     <<"Content type ">> \o PyStr(ct) \o <<" not allowed">>)
                            /\ pc' = "done"
                       ELSE /\ response' = NoResponse
                            /\ pc' = "key"
    /\ UNCHANGED <<config, clock, timestamp, object_key, fields, conditions,
                   downloadLocals, calls>>

\* timestamp = datetime.utcnow().strftime(...); object_key = ...
UploadDeriveKey ==
    /\ handler = "upload" /\ pc = "key"
    /\ timestamp' = strftime(clock)
    /\ object_key' = ObjectKey(strftime(clock), filename)
    /\ pc' = "fields"
    /\ UNCHANGED <<config, clock, handler, event, filename, content_type,
                   metadata, fields, conditions, downloadLocals, calls, response>>

\* fields = {...} with a second datetime.utcnow(), then the metadata loop
UploadBuildFields ==
    /\ handler = "upload" /\ pc = "fields"
    /\ fields' = Fields(content_type, metadata, clock)
    /\ pc' = "conditions"
    /\ UNCHANGED <<config, clock, handler, event, filename, content_type,
                   metadata, timestamp, object_key, conditions, downloadLocals,
                   calls, response>>

\* conditions = [...] and the `if KMS_KEY_ID:` block
UploadBuildConditions ==
    /\ handler = "upload" /\ pc = "conditions"
    /\ fields' = EncryptedFields(fields)
    /\ conditions' = EncryptedConditions(InitialConditions(content_type, fields))
    /\ pc' = "presign"
    /\ UNCHANGED <<config, clock, handler, event, filename, content_type,
                   metadata, timestamp, object_key, downloadLocals, calls,
                   response>>

\* s3_client.generate_presigned_post(...) and the return or except after it
UploadPresign ==
    /\ handler = "upload" /\ pc = "presign"
    /\ \E outcome \in {"ok", "ClientError", "Exception"} :
        LET r == UploadPresignResult(outcome,
                    [upload_url |-> PresignedPostUrl(BUCKET_NAME),
                     fields |-> PresignedPostFields(fields, object_key),
                     object_key |-> object_key,
                     expires_in |-> EXPIRATION_TIME,
                     max_file_size_mb |-> MAX_FILE_SIZE \div (1024 * 1024)])
        IN  /\ calls' = Append(calls,
                    [op |-> "presign_post", Bucket |-> BUCKET_NAME,
                     Key |-> object_key, Fields |-> fields,
                     Conditions |-> conditions, ExpiresIn |-> EXPIRATION_TIME,
                     outcome |-> outcome])
            /\ pc' = r.pc
            /\ response' = r.response
    /\ UNCHANGED <<config, clock, handler, event, uploadLocals, object_key,
                   downloadLocals>>

(* ============================= download.py ============================= *)
\* the try/except around head_object: `ok` falls through, code '404'
\* returns the 404 envelope, any other ClientError is re-raised to the outer
\* `except ClientError`, any other exception reaches `except Exception`
\* (variants: code '404' swallowed; every ClientError taken for not-found)
HeadResultNotFoundFallsThrough(code) ==
    CASE code \in {"ok", "404"} -> [pc |-> "presign", response |-> NoResponse]
      [] code = "Exception" -> [pc |-> "done", response |-> UnexpectedErrorResponse]
      [] OTHER -> [pc |-> "done", response |-> ClientErrorResponse]
HeadResultAllNotFound(code) ==
    CASE code = "ok" -> [pc |-> "presign", response |-> NoResponse]
      [] code = "Exception" -> [pc |-> "done", response |-> UnexpectedErrorResponse]
      [] OTHER -> [pc |-> "done",
                   response |-> error_response(404, <<"Object not found">>)]
HeadResult(code) ==
    CASE code = "ok" -> [pc |-> "presign", response |-> NoResponse]
      [] code = "404" -> [pc |-> "done",
                          response |-> error_response(404, <<"Object not found">>)]
      [] code = "Exception" -> [pc |-> "done", response |-> UnexpectedErrorResponse]
      [] OTHER -> [pc |-> "done", response |-> ClientErrorResponse]

\* params = {'Bucket': ..., 'Key': ...} and the optional disposition
\* (variant: the disposition entry set without the `if`)
ParamsAlwaysDisposition(key, rcd) ==
    ("Bucket" :> BUCKET_NAME) @@ ("Key" :> key)
    @@ ("ResponseContentDisposition" :> rcd)
Params(key, rcd) ==
    IF Truthy(rcd)
    THEN ("Bucket" :> BUCKET_NAME) @@ ("Key" :> key)
         @@ ("ResponseContentDisposition" :> rcd)
    ELSE ("Bucket" :> BUCKET_NAME) @@ ("Key" :> key)

\* what generate_presigned_url returns
PresignedGetUrl(p) ==
    <<"https://">> \o p["Bucket"] \o <<".s3.amazonaws.com/">> \o p["Key"]
    \o <<"?X-Amz-Signature">>

\* download.lambda_handler, from its entry to the end of validation
DownloadInvoke ==
    /\ handler = "idle"
    /\ \E ev \in Events(DownloadRequests) :
        /\ handler' = "download"
        /\ event' = ev
        /\ IF ParseFails(ev)
           THEN /\ response' = UnexpectedErrorResponse
                /\ pc' = "done"
                /\ UNCHANGED <<object_key, response_content_disposition>>
           ELSE LET body == ParseBody(ev)
                    key == Get(body, "object_key", None)
                IN  /\ object_key' = key
                    /\ response_content_disposition' =
                           Get(body, "response_content_disposition", None)
                    /\ IF ~Truthy(key)
                       THEN /\ response' = error_response(400, <<"object_key is required">>)
                            /\ pc' = "done"
                       ELSE /\ response' = NoResponse
                            /\ pc' = "head"
    /\ UNCHANGED <<config, clock, uploadLocals, params, calls>>

\* s3_client.head_object(...) and its except clause
DownloadHead ==
    /\ handler = "download" /\ pc = "head"
    /\ \E code \in {"ok", "404", "403", "Exception"} :
        /\ calls' = Append(calls,
                [op |-> "head", Bucket |-> BUCKET_NAME, Key |-> object_key,
                 outcome |-> code])
        /\ pc' = HeadResult(code).pc
        /\ response' = HeadResult(code).response
    /\ UNCHANGED <<config, clock, handler, event, uploadLocals, object_key,
                   downloadLocals>>

\* params, s3_client.generate_presigned_url(...) and the return or except
DownloadPresign ==
    /\ handler = "download" /\ pc = "presign"
    /\ params' = Params(object_key, response_content_disposition)
    /\ \E outcome \in {"ok", "ClientError", "Exception"} :
        /\ calls' = Append(calls,
                [op |-> "presign_get", Params |-> params',
                 ExpiresIn |-> EXPIRATION_TIME, outcome |-> outcome])
        /\ response' =
             CASE outcome = "ok" ->
                    success_response([download_url |-> PresignedGetUrl(params'),
                                      object_key |-> object_key,
                                      expires_in |-> EXPIRATION_TIME])
               [] outcome = "ClientError" -> ClientErrorResponse
               [] OTHER -> UnexpectedErrorResponse
    /\ pc' = "done"
    /\ UNCHANGED <<config, clock, handler, event, uploadLocals, object_key,
                   response_content_disposition>>

(* ============================ specification ============================ *)
\* the handler has returned; the runtime may dispatch the next event
Return ==
    /\ pc = "done"
    /\ handler' = "idle"
    /\ pc' = "idle"
    /\ event' = NoEvent
    /\ filename' = None
    /\ content_type' = None
    /\ metadata' = EmptyDict
    /\ timestamp' = None
    /\ object_key' = None
    /\ fields' = EmptyDict
    /\ conditions' = << >>
    /\ response_content_disposition' = None
    /\ params' = EmptyDict
    /\ calls' = << >>
    /\ response' = NoResponse
    /\ UNCHANGED <<config, clock>>

Next ==
    \/ Tick
    \/ UploadInvoke
    \/ UploadDeriveKey
    \/ UploadBuildFields
    \/ UploadBuildConditions
    \/ UploadPresign
    \/ DownloadInvoke
    \/ DownloadHead
    \/ DownloadPresign
    \/ Return

Spec == Init /\ [][Next]_vars

(* =============================== claims ================================ *)
\* the request of the running invocation, when its body parsed
Parsed == handler # "idle" /\ event.shape \in {"raw", "str", "obj"}
\* key is absent from the request or bound to the empty string
Missing(key) == key \notin DOMAIN event.req \/ event.req[key] = << >>
\* the positions in the call log of the calls of one operation
CallsOf(op) == {i \in DOMAIN calls : calls[i].op = op}
\* the message of an error envelope
ErrorOf(resp) == resp.body.json.error
\* the payload of a success envelope
PayloadOf(resp) == resp.body.json

\* C1: an upload request without (or with an empty) filename, and a download
\* request without (or with an empty) object_key, is answered with status 400
\* and the invocation makes no collaborator call.
C1_MissingKeyIsValidationError ==
    /\ (Parsed /\ handler = "upload" /\ Missing("filename"))
         => (pc = "done" /\ response.statusCode = 400 /\ calls = << >>)
    /\ (Parsed /\ handler = "download" /\ Missing("object_key"))
         => (pc = "done" /\ response.statusCode = 400 /\ calls = << >>)
C1_Witness ==
    /\ handler = "upload" /\ pc = "done"
    /\ "filename" \in DOMAIN event.req /\ event.req["filename"] = << >>
    /\ response.statusCode = 400
    /\ calls = << >>

\* number of conditions of a list that bind (or range over) the field f
CountOf(conds, kind, f) ==
    Cardinality({i \in DOMAIN conds : conds[i].kind = kind /\ conds[i].field = f})

\* C2: with encryption configured, the condition list given to presign_post
\* holds exactly one content-type, one size-range, one upload-timestamp, one
\* encryption-algorithm and one encryption-key-identifier condition.
C2_EachConditionKindOnce ==
    \A i \in CallsOf("presign_post") :
        KMS_KEY_ID # << >> =>
            /\ CountOf(calls[i].Conditions, "eq", F_CONTENT_TYPE) = 1
            /\ CountOf(calls[i].Conditions, "range", LENGTH_RANGE) = 1
            /\ CountOf(calls[i].Conditions, "eq", F_UPLOADED_AT) = 1
            /\ CountOf(calls[i].Conditions, "eq", F_SSE) = 1
            /\ CountOf(calls[i].Conditions, "eq", F_SSE_KEY) = 1

\* C3: on a successful upload authorization every entry of the fields map
\* given to presign_post has a condition binding that field to that value,
\* and every field-binding condition has its entry in the fields map.
C3_FieldsMatchConditions ==
    \A i \in CallsOf("presign_post") :
        (pc = "done" /\ response.statusCode = 200) =>
            /\ \A f \in DOMAIN calls[i].Fields :
                 \E j \in DOMAIN calls[i].Conditions :
                    /\ calls[i].Conditions[j].kind = "eq"
                    /\ calls[i].Conditions[j].field = f
                    /\ calls[i].Conditions[j].value = calls[i].Fields[f]
            /\ \A j \in DOMAIN calls[i].Conditions :
                 calls[i].Conditions[j].kind = "eq" =>
                    /\ calls[i].Conditions[j].field \in DOMAIN calls[i].Fields
                    /\ calls[i].Fields[calls[i].Conditions[j].field]
                         = calls[i].Conditions[j].value

\* the content type of the request after defaulting
RequestedContentType == Get(event.req, "content_type", CT_DEFAULT)

\* C4: an upload request with a non-empty filename whose content type (after
\* defaulting) is outside a non-empty allow-list gets status 400 with a
\* message naming that type and no presign_post call; with an empty
\* allow-list no such request gets a validation error.
C4_ContentTypeOutsideAllowList ==
    (Parsed /\ handler = "upload" /\ ~Missing("filename")) =>
        /\ (/\ ALLOWED_CONTENT_TYPES # << >>
            /\ \A i \in DOMAIN ALLOWED_CONTENT_TYPES :
                  ALLOWED_CONTENT_TYPES[i] # RequestedContentType)
             => /\ pc = "done"
                /\ response.statusCode = 400
                /\ Contains(ErrorOf(response), RequestedContentType)
                /\ CallsOf("presign_post") = {}
        /\ ALLOWED_CONTENT_TYPES = << >> => response.statusCode # 400
C4_Witness ==
    /\ handler = "upload" /\ pc = "done"
    /\ ALLOWED_CONTENT_TYPES = <<CT_PDF>>
    /\ filename = <<"doc.pdf">> /\ content_type = CT_EXE
    /\ response.statusCode = 400
    /\ ErrorOf(response) = <<"Content type ", "application/x-msdownload", " not allowed">>

\* C5: when the existence check reports not-found the handler returns 404
\* "Object not found" and never calls presign_get; presign_get is only
\* called after a successful existence check on the same key.
C5_NotFoundMintsNothing ==
    /\ \A i \in CallsOf("head") :
         calls[i].outcome = "404" =>
            /\ pc = "done"
            /\ response.statusCode = 404
            /\ ErrorOf(response) = <<"Object not found">>
            /\ CallsOf("presign_get") = {}
    /\ \A j \in CallsOf("presign_get") :
         \E i \in CallsOf("head") :
            /\ i < j
            /\ calls[i].outcome = "ok"
            /\ calls[i].Key = calls[j].Params["Key"]
C5_Witness ==
    /\ handler = "download" /\ pc = "done"
    /\ Len(calls) = 1 /\ calls[1].op = "head" /\ calls[1].outcome = "404"
    /\ calls[1].Key = <<"uploads/2024/02/13/120000/doc.pdf">>
    /\ response.statusCode = 404

\* C6: when the existence check fails with an error other than not-found the
\* handler returns status 500, not 404 and not a success, and presign_get is
\* not called.
C6_OtherHeadErrorIsStorageError ==
    \A i \in CallsOf("head") :
        calls[i].outcome \notin {"ok", "404"} =>
            /\ pc = "done"
            /\ response.statusCode = 500
            /\ CallsOf("presign_get") = {}
C6_Witness ==
    /\ handler = "download" /\ pc = "done"
    /\ Len(calls) = 1 /\ calls[1].op = "head" /\ calls[1].outcome = "403"
    /\ response.statusCode = 500

\* C7: on a successful upload authorization, whatever the metadata, the
\* x-amz-meta-uploaded-at entry of the fields map is the ISO-8601 text of a
\* clock reading of the invocation, and the date/time directory of
\* object_key is derived from that same reading.
C7_TimestampTagIsKeyInstant ==
    \A i \in CallsOf("presign_post") :
        (pc = "done" /\ response.statusCode = 200) =>
            \E t \in 0..clock :
                /\ calls[i].Fields[F_UPLOADED_AT] = isoformat(t)
                /\ calls[i].Key = ObjectKey(strftime(t), filename)

\* C8 as stated: every response, success or error, carries the allow-origin,
\* allow-methods POST and allow-headers Content-Type headers.
C8_EveryResponsePermitsCrossOriginPost ==
    response.statusCode # 0 =>
        /\ "Access-Control-Allow-Origin" \in DOMAIN response.headers
        /\ "Access-Control-Allow-Methods" \in DOMAIN response.headers
        /\ response.headers["Access-Control-Allow-Methods"] = "POST"
        /\ "Access-Control-Allow-Headers" \in DOMAIN response.headers
        /\ response.headers["Access-Control-Allow-Headers"] = "Content-Type"

\* C8 amended: every response, success or error, carries
\* Access-Control-Allow-Origin '*'; the responses with status 200 also carry
\* allow-methods POST and allow-headers Content-Type.
C8_OriginAlwaysMethodsOnSuccess ==
    response.statusCode # 0 =>
        /\ response.statusCode \in {200, 400, 404, 500}
        /\ "Access-Control-Allow-Origin" \in DOMAIN response.headers
        /\ response.headers["Access-Control-Allow-Origin"] = "*"
        /\ response.statusCode = 200 =>
            /\ "Access-Control-Allow-Methods" \in DOMAIN response.headers
            /\ response.headers["Access-Control-Allow-Methods"] = "POST"
            /\ "Access-Control-Allow-Headers" \in DOMAIN response.headers
            /\ response.headers["Access-Control-Allow-Headers"] = "Content-Type"
C8_Witness ==
    /\ pc = "done"
    /\ response.statusCode = 404
    /\ response.headers["Access-Control-Allow-Origin"] = "*"
    /\ "Access-Control-Allow-Methods" \notin DOMAIN response.headers

\* a collaborator call that failed, head reporting not-found apart
Failed(call) == call.outcome \notin {"ok", "404"}

\* C9: within one invocation head, presign_get and presign_post are each
\* called at most once, and a failed call (other than head reporting
\* not-found) is the last call of the invocation, which ends with status 500.
C9_NoRetry ==
    /\ Cardinality(CallsOf("head")) <= 1
    /\ Cardinality(CallsOf("presign_get")) <= 1
    /\ Cardinality(CallsOf("presign_post")) <= 1
    /\ \A i \in DOMAIN calls :
         Failed(calls[i]) =>
            /\ i = Len(calls)
            /\ pc = "done"
            /\ response.statusCode = 500
C9_Witness ==
    /\ handler = "upload" /\ pc = "done"
    /\ Len(calls) = 1 /\ calls[1].op = "presign_post"
    /\ calls[1].outcome = "ClientError"
    /\ response.statusCode = 500

\* the download request carries a response_content_disposition entry
DispositionSupplied == "response_content_disposition" \in DOMAIN event.req

\* the parts of C10 that do not depend on the disposition: bucket, key, ttl
\* and the echo of object_key and expires_in in the success payload
SigningBasics(call) ==
    /\ call.Params["Bucket"] = BUCKET_NAME
    /\ call.Params["Key"] = event.req["object_key"]
    /\ DOMAIN call.Params \subseteq {"Bucket", "Key", "ResponseContentDisposition"}
    /\ call.ExpiresIn = EXPIRATION_TIME
    /\ (pc = "done" /\ response.statusCode = 200) =>
         /\ PayloadOf(response).object_key = event.req["object_key"]
         /\ PayloadOf(response).expires_in = call.ExpiresIn

\* C10 as stated: the parameters given to presign_get are the bucket, the
\* caller's object_key and a disposition override equal to the caller's
\* value if and only if the caller supplied one.
C10_OverrideIffSupplied ==
    \A i \in CallsOf("presign_get") :
        /\ SigningBasics(calls[i])
        /\ "ResponseContentDisposition" \in DOMAIN calls[i].Params
             <=> DispositionSupplied
        /\ DispositionSupplied =>
             calls[i].Params["ResponseContentDisposition"]
               = event.req["response_content_disposition"]

\* C10 amended: the override is passed if and only if the caller supplied a
\* non-empty one.
C10_OverrideIffSuppliedNonEmpty ==
    \A i \in CallsOf("presign_get") :
        /\ SigningBasics(calls[i])
        /\ "ResponseContentDisposition" \in DOMAIN calls[i].Params
             <=> ~Missing("response_content_disposition")
        /\ ~Missing("response_content_disposition") =>
             calls[i].Params["ResponseContentDisposition"]
               = event.req["response_content_disposition"]
C10_Witness ==
    /\ handler = "download" /\ pc = "done"
    /\ response.statusCode = 200
    /\ Len(calls) = 2 /\ calls[2].op = "presign_get"
    /\ "ResponseContentDisposition" \in DOMAIN calls[2].Params
    /\ calls[2].Params["ResponseContentDisposition"] = <<"attachment; filename=out.pdf">>
    /\ PayloadOf(response).object_key = <<"uploads/2024/02/13/120000/doc.pdf">>

====
